---- MODULE Spec2Model ----
(***************************************************************************)
(* Student tracking system (working.py): three JSON files (students,       *)
(* users, logs), one Streamlit session, and the handlers that the script   *)
(* runs when a form or button is submitted.  One action is one run of      *)
(* main() triggered by one widget event.                                   *)
(*                                                                         *)
(* A save may raise (open()/json.dump on the file fails).  A handler       *)
(* takes the input `fail`: the kind of file whose first save in this run   *)
(* raises ("none": every save succeeds).  A save that raises leaves the    *)
(* file as it was, and the exception ends the run.  The texts that a run   *)
(* shows with st.error are the values of the validation operators          *)
(* (Authenticate, AddError, TeacherPasswordError, StudentPasswordError);   *)
(* they are not kept from one run to the next.                             *)
(***************************************************************************)
EXTENDS Integers, Sequences, FiniteSets, TLC

\* ---------------------------------------------------------------- bounds
\* How many of the five default student records (and their accounts) the
\* first run seeds.
SeedStudents == 1
\* Longest activity log explored.
MaxLog == 2
\* How many saves raise in one behaviour.
MaxFailures == 1
\* Class size of the rank specification.
RankClassSize == 3

\* ------------------------------------------------------------- constants
None == "None"
NoMsg == <<>>

STUDENTS_FILE == "students"
USERS_FILE == "users"
LOGS_FILE == "logs"
Files == {STUDENTS_FILE, USERS_FILE, LOGS_FILE}
Fails == Files \cup {"none"}

subjects == <<"math", "science", "history", "english">>

\* ------------------------------------------------------ password hashing
\* SHA-256 hex digest: deterministic, and distinct passwords give distinct
\* digests; a digest is never equal to a plaintext.
hash_password(password) == <<"sha256", password>>

\* ----------------------------------------------------------- seed data
StudentRec(id, name, age, course, m, s, h, e, pn, pp) ==
    [id |-> id, name |-> name, age |-> age, course |-> course,
     math |-> m, science |-> s, history |-> h, english |-> e,
     parent_name |-> pn, parent_phone |-> pp]

UserRec(name, password, type) ==
    [name |-> name, password |-> hash_password(password), type |-> type]

AllDefaultStudents ==
    << StudentRec("S001", "Alice Johnson", 20, "Computer Science", 85, 92, 78, 88,
                  "John Johnson", "123-456-7890"),
       StudentRec("S002", "Bob Smith", 21, "Mechanical", 72, 68, 85, 79,
                  "Mary Smith", "234-567-8901"),
       StudentRec("S003", "Charlie Brown", 22, "Electrical", 91, 94, 89, 93,
                  "Tom Brown", "345-678-9012"),
       StudentRec("S004", "Diana Prince", 20, "Civil", 65, 70, 75, 68,
                  "Bruce Prince", "456-789-0123"),
       StudentRec("S005", "Ethan Hunt", 23, "Computer Science", 78, 82, 77, 85,
                  "Ethan Hunt Sr.", "567-890-1234") >>

DefaultStudentPasswords ==
    <<"alice123", "bob123", "charlie123", "diana123", "ethan123">>

default_students == SubSeq(AllDefaultStudents, 1, SeedStudents)

default_teachers ==
    ("T001" :> UserRec("Sarah Jones", "teacher123", "teacher")) @@
    ("T002" :> UserRec("Michael Brown", "teacher456", "teacher"))

default_users ==
    default_teachers @@
    [id \in {default_students[i].id : i \in 1..Len(default_students)} |->
        LET i == CHOOSE k \in 1..Len(default_students) : default_students[k].id = id
        IN  UserRec(default_students[i].name, DefaultStudentPasswords[i], "student")]

\* ----------------------------------------------------------------- state
VARIABLES
    exists,        \* exists[f]: os.path.exists(f) for the three files
    students,      \* content of students.json: sequence of student records
    users,         \* content of users.json: user id -> credential record
    logs,          \* content of logs.json: sequence of log entries
    logged_in,     \* st.session_state.logged_in
    current_user,  \* st.session_state.current_user
    rank,          \* "Your Class Rank" of the latest run, 0 when not shown
    summary,       \* "Academic Summary" of the latest run: <<gpa, percentage,
                   \* grade>> in hundredths, <<>> when not shown
    raised,        \* number of saves that have raised so far
    pc,            \* pc[s]: where session s is between a load and its save
                   \* (specification RaceSpec)
    loaded         \* loaded[s]: what session s has loaded: its students,
                   \* users and logs of load_students, load_users, load_logs

vars == <<exists, students, users, logs, logged_in, current_user, rank, summary, raised,
         pc, loaded>>
session == <<logged_in, current_user>>
race == <<pc, loaded>>

\* The two sessions of RaceSpec, by the teacher who runs each.
RaceSessions == {"T001", "T002"}

\* No session is between a load and a save.
NoRace ==
    /\ pc = [s \in RaceSessions |-> "idle"]
    /\ loaded = [s \in RaceSessions |-> [students |-> <<>>, users |-> <<>>, logs |-> <<>>]]

AllExist == \A f \in Files : exists[f]

\* The save named by `fail` raises in this run.
Raises(fail) ==
    /\ fail # "none" => raised < MaxFailures
    /\ raised' = IF fail = "none" THEN raised ELSE raised + 1

\* -------------------------------------------------------------- helpers
ids(ss) == {ss[i].id : i \in 1..Len(ss)}

\* users.get(user_id, {}).get("type")
UserType(us, user_id) ==
    IF user_id \in DOMAIN us THEN us[user_id].type ELSE None

\* next((s for s in students if s["id"] == student_id), None): its index, 0 for None
FindStudent(ss, student_id) ==
    IF \E i \in 1..Len(ss) : ss[i].id = student_id
    THEN CHOOSE i \in 1..Len(ss) :
            ss[i].id = student_id /\ \A j \in 1..(i - 1) : ss[j].id # student_id
    ELSE 0

\* datetime.now() as read by log_activity: a clock that has advanced since
\* the previous entry was written.
Timestamp(ls) == Len(ls) + 1

\* Mutant of log_activity: the entry is written to a fresh list instead of
\* the loaded log.
log_activity_fresh(ls, user_id, activity) ==
    <<[timestamp |-> Len(ls) + 1, user_id |-> user_id, activity |-> activity]>>

\* log_activity: the loaded log with one entry appended
log_activity(ls, user_id, activity) ==
    Append(ls, [timestamp |-> Timestamp(ls), user_id |-> user_id, activity |-> activity])

Total(s) == s.math + s.science + s.history + s.english

\* sorted(students, key=total, reverse=True): a stable sort, so records of
\* equal total keep their order.  x goes behind the records whose total is
\* not smaller.
InsertSorted(sorted, x) ==
    LET p == Cardinality({i \in 1..Len(sorted) : Total(sorted[i]) >= Total(x)})
    IN  SubSeq(sorted, 1, p) \o <<x>> \o SubSeq(sorted, p + 1, Len(sorted))

RECURSIVE SortedByTotal(_)
SortedByTotal(ss) ==
    IF ss = <<>> THEN <<>>
    ELSE InsertSorted(SortedByTotal(SubSeq(ss, 1, Len(ss) - 1)), ss[Len(ss)])

\* Mutant of Outranks: ties counted as higher.
Outranks_OrEqual(s_total, student_total) == s_total >= student_total

\* One pass of "for s in students_sorted": the test that bumps rank
Outranks(s_total, student_total) == s_total > student_total

\* student_dashboard: rank = 1, then the loop over students_sorted from
\* position k on
RECURSIVE RankLoop(_, _, _, _)
RankLoop(students_sorted, student_total, k, r) ==
    IF k > Len(students_sorted) THEN r
    ELSE RankLoop(students_sorted, student_total, k + 1,
                  IF Outranks(Total(students_sorted[k]), student_total)
                  THEN r + 1 ELSE r)

Rank(ss, student) == RankLoop(SortedByTotal(ss), Total(student), 1, 1)

\* What a run that renders the page of the current session shows as rank.
ShownRank(ss, us, li, cu) ==
    IF li /\ UserType(us, cu) = "student" /\ FindStudent(ss, cu) # 0
    THEN Rank(ss, ss[FindStudent(ss, cu)])
    ELSE 0

\* -------------------------------------------------------------- grading
\* Numbers with two decimals are integers in hundredths: 3.58 is 358 and
\* 85.75 is 8575.  With marks that are integers the percentage is a
\* multiple of 0.25, and the comparisons and sums of calculate_gpa are
\* exact in double arithmetic, so the branch taken is the branch of the
\* exact value.
\*
\* round(gpa, 2) rounds the double to the nearest hundredth.  Where the
\* exact gpa lies halfway between two hundredths the double nearest to it
\* lies above or below the halfway point, and round follows the double.
\* TiesRoundedUp are the totals of four marks in 0..100 at which the gpa is
\* such a halfway value and its double lies above.
TiesRoundedUp ==
    {6, 54, 66, 78, 90, 126, 162, 186, 210, 222, 243, 245, 247, 249, 257, 259,
     267, 269, 275, 277, 279, 283, 289, 293, 295, 299, 303, 309, 313, 315,
     319, 323, 329, 333, 335, 339, 343, 349, 353, 355, 359}

\* round(gpa, 2) of the gpa n12 / 1200 (n12 / 12 hundredths)
Round2(n12, total_marks) ==
    LET q == n12 \div 12
        r == n12 % 12
    IN  IF r < 6 THEN q
        ELSE IF r > 6 THEN q + 1
        ELSE IF total_marks \in TiesRoundedUp THEN q + 1 ELSE q

\* calculate_gpa: <<round(gpa, 2), round(percentage, 2)>>.  percentage is
\* total_marks / 4; the gpa of each branch is written over 1200.
calculate_gpa(student) ==
    LET total_marks == student.math + student.science + student.history
                       + student.english
        percentage == total_marks * 25
        gpa12 == IF percentage >= 9000 THEN 4800
                 ELSE IF percentage >= 8000 THEN 3600 + (total_marks - 320) * 30
                 ELSE IF percentage >= 7000 THEN 2400 + (total_marks - 280) * 30
                 ELSE IF percentage >= 6000 THEN 1200 + (total_marks - 240) * 30
                 ELSE total_marks * 5
    IN  <<Round2(gpa12, total_marks), percentage>>

\* Mutant of get_grade: the A band starts above 90 instead of at 90.
get_grade_Above90(percentage) ==
    IF percentage > 9000 THEN "A"
    ELSE IF percentage >= 8000 THEN "B"
    ELSE IF percentage >= 7000 THEN "C"
    ELSE IF percentage >= 6000 THEN "D"
    ELSE "F"

\* get_grade
get_grade(percentage) ==
    IF percentage >= 9000 THEN "A"
    ELSE IF percentage >= 8000 THEN "B"
    ELSE IF percentage >= 7000 THEN "C"
    ELSE IF percentage >= 6000 THEN "D"
    ELSE "F"

NoSummary == <<>>

\* student_dashboard: gpa, percentage = calculate_gpa(student);
\* grade = get_grade(percentage)
Summary(student) ==
    LET m == calculate_gpa(student)
    IN  <<m[1], m[2], get_grade(m[2])>>

\* What a run that renders the page of the current session shows as
\* academic summary.
ShownSummary(ss, us, li, cu) ==
    IF li /\ UserType(us, cu) = "student" /\ FindStudent(ss, cu) # 0
    THEN Summary(ss[FindStudent(ss, cu)])
    ELSE NoSummary

\* ------------------------------------------------------------------ Init
\* A fresh installation before the first run: no file, no session.
Init ==
    /\ exists = [f \in Files |-> FALSE]
    /\ students = <<>>
    /\ users = <<>>
    /\ logs = <<>>
    /\ logged_in = FALSE
    /\ current_user = None
    /\ rank = 0
    /\ summary = NoSummary
    /\ raised = 0
    /\ NoRace

\* --------------------------------------------------------- initialize_data
\* The three "if not os.path.exists" blocks, in order; a save that raises
\* ends the function.
InitStudentsOk(fail) == exists[STUDENTS_FILE] \/ fail # STUDENTS_FILE
InitUsersOk(fail) == InitStudentsOk(fail) /\ (exists[USERS_FILE] \/ fail # USERS_FILE)
InitLogsOk(fail) == InitUsersOk(fail) /\ (exists[LOGS_FILE] \/ fail # LOGS_FILE)

initialize_data(fail) ==
    /\ students' = IF ~exists[STUDENTS_FILE] /\ InitStudentsOk(fail)
                   THEN default_students ELSE students
    /\ users' = IF ~exists[USERS_FILE] /\ InitUsersOk(fail)
                THEN default_users ELSE users
    /\ logs' = IF ~exists[LOGS_FILE] /\ InitLogsOk(fail)
               THEN <<>> ELSE logs
    /\ exists' = [f \in Files |->
                    \/ exists[f]
                    \/ f = STUDENTS_FILE /\ InitStudentsOk(fail)
                    \/ f = USERS_FILE /\ InitUsersOk(fail)
                    \/ f = LOGS_FILE /\ InitLogsOk(fail)]

\* A run of main() with no widget event (first load, page refresh):
\* initialize_data, then the page of the session is rendered.
Rerun(fail) ==
    /\ Raises(fail)
    /\ UNCHANGED race
    /\ IF fail = "none" THEN TRUE ELSE ~exists[fail]
    /\ initialize_data(fail)
    /\ UNCHANGED session
    /\ rank' = IF InitLogsOk(fail)
               THEN ShownRank(students', users', logged_in, current_user)
               ELSE 0
    /\ summary' = IF InitLogsOk(fail)
                  THEN ShownSummary(students', users', logged_in, current_user)
                  ELSE NoSummary

\* ------------------------------------------------------------------ inputs
\* What is typed into the forms.  "" is a field left blank.
LoginIds == {"T001", "S001", "S006", ""}
PwInputs == {"", "abc", "abc123", "teacher123", "alice123"}
\* <<new password, confirmation>> of the change-password forms
NewPwInputs == {<<"abc", "abc">>, <<"abc123", "abc123">>, <<"abc123", "abc">>, <<"", "">>}

\* ------------------------------------------------------------------- login
\* main, login form: the outcome of the submitted user id and password.
Authenticate(us, user_id, password) ==
    IF user_id = "" \/ password = ""
    THEN [ok |-> FALSE, role |-> None, msg |-> <<"Please fill in all fields!">>]
    ELSE IF user_id \in DOMAIN us
         THEN IF us[user_id].password = hash_password(password)
              THEN [ok |-> TRUE, role |-> us[user_id].type,
                    msg |-> <<"Login successful as", us[user_id].type>>]
              ELSE [ok |-> FALSE, role |-> None, msg |-> <<"Invalid password!">>]
         ELSE [ok |-> FALSE, role |-> None, msg |-> <<"User ID not found!">>]

\* The session is set before log_activity is called, so it stays set when
\* the log save raises.
Login(user_id, password, fail) ==
    /\ Raises(fail)
    /\ UNCHANGED race
    /\ AllExist
    /\ ~logged_in
    /\ fail \in {"none", LOGS_FILE}
    /\ LET r == Authenticate(users, user_id, password)
       IN  IF r.ok
           THEN /\ logged_in' = TRUE
                /\ current_user' = user_id
                /\ logs' = IF fail = LOGS_FILE THEN logs
                           ELSE log_activity(logs, user_id, <<"Logged in">>)
           ELSE /\ fail = "none"
                /\ UNCHANGED <<session, logs>>
    /\ Len(logs') <= MaxLog
    /\ rank' = 0
    /\ summary' = NoSummary
    /\ UNCHANGED <<exists, students, users>>

\* ------------------------------------------------------------------ logout
\* The three Logout buttons of main: teacher and student branches log
\* first, the "Invalid user type" branch does not log.  A log save that
\* raises leaves the session as it was; otherwise st.experimental_rerun
\* starts the next run on the login page.
Logout(fail) ==
    /\ Raises(fail)
    /\ UNCHANGED race
    /\ AllExist
    /\ logged_in
    /\ fail \in {"none", LOGS_FILE}
    /\ LET user_type == UserType(users, current_user)
       IN  IF user_type \in {"teacher", "student"}
           THEN IF fail = LOGS_FILE
                THEN /\ UNCHANGED <<session, logs>>
                     /\ rank' = ShownRank(students, users, logged_in, current_user)
                     /\ summary' = ShownSummary(students, users, logged_in, current_user)
                ELSE /\ logs' = log_activity(logs, current_user, <<"Logged out">>)
                     /\ logged_in' = FALSE
                     /\ current_user' = None
                     /\ rank' = 0
                     /\ summary' = NoSummary
           ELSE /\ fail = "none"
                /\ UNCHANGED logs
                /\ logged_in' = FALSE
                /\ current_user' = None
                /\ rank' = 0
                /\ summary' = NoSummary
    /\ Len(logs') <= MaxLog
    /\ UNCHANGED <<exists, students, users>>

\* The teacher pages are rendered only when the credential of the current
\* user has type teacher (main).
TeacherPage == AllExist /\ logged_in /\ UserType(users, current_user) = "teacher"

\* student_dashboard is rendered up to its form only when the credential
\* has type student and the student record is found.
StudentPage ==
    /\ AllExist /\ logged_in
    /\ UserType(users, current_user) = "student"
    /\ FindStudent(students, current_user) # 0

\* ------------------------------------------------------------ manage_marks
MarkInputs == {0, 90}
EditSubjectSets == {{"math"}, {"math", "science"}}

\* The rows of the data editor (id and name are disabled columns): the
\* stored rows with the cells `cells` of one row set to v.
MarkRows(ss, i, cells, v) ==
    [k \in 1..Len(ss) |->
        [f \in {"id", "name", "math", "science", "history", "english"} |->
            IF k = i /\ f \in cells THEN v ELSE ss[k][f]]]

EditedMarks(ss) ==
    {MarkRows(ss, i, cells, v) :
        i \in 1..Len(ss), cells \in EditSubjectSets, v \in MarkInputs}

\* The rows of edited_df before row r that carry this id.
RowsBefore(rows, r, id) == {q \in 1..(r - 1) : rows[q].id = id}

\* The last row of rows that carries this id, 0 when none does.
LastRow(rows, id) ==
    IF \E q \in 1..Len(rows) : rows[q].id = id
    THEN CHOOSE q \in 1..Len(rows) :
            rows[q].id = id /\ \A q2 \in (q + 1)..Len(rows) : rows[q2].id # id
    ELSE 0

\* Mutant of MarkDiffers: only a raised mark counts as a change.
MarkDiffers_Raised(stored, submitted) == stored < submitted

\* "if student[subject] != row[subject]"
MarkDiffers(stored, submitted) == stored # submitted

\* The loop nest of "Save Marks Changes": for each edited row r, each
\* student j with the id of the row, each subject, in this order.  The mark
\* the test "student[subject] != row[subject]" reads is the one an earlier
\* row of the same id has left, else the stored one.  Each changed mark is
\* overwritten in the working copy and log_activity is called at once.
MarksLoop(ss, ls, edited_df, user) ==
    LET n == Len(ss)
        m == Len(subjects)
        RowOf(k) == ((k - 1) \div (n * m)) + 1
        StudentOf(k) == (((k - 1) \div m) % n) + 1
        SubjectOf(k) == subjects[((k - 1) % m) + 1]
        MarkBefore(r, j, subject) ==
            IF RowsBefore(edited_df, r, ss[j].id) = {} THEN ss[j][subject]
            ELSE edited_df[LastRow(SubSeq(edited_df, 1, r - 1), ss[j].id)][subject]
        Changed(k) ==
            /\ ss[StudentOf(k)].id = edited_df[RowOf(k)].id
            /\ MarkDiffers(MarkBefore(RowOf(k), StudentOf(k), SubjectOf(k)),
                           edited_df[RowOf(k)][SubjectOf(k)])
        steps == SelectSeq([k \in 1..(Len(edited_df) * n * m) |-> k], Changed)
        Entry(x) ==
            [timestamp |-> Timestamp(ls) + (x - 1), user_id |-> user,
             activity |-> <<"Updated", SubjectOf(steps[x]), "mark for",
                            ss[StudentOf(steps[x])].name, "ID",
                            edited_df[RowOf(steps[x])].id, "to",
                            ToString(edited_df[RowOf(steps[x])][SubjectOf(steps[x])])>>]
        Assigned(j, f) ==
            {x \in 1..Len(steps) : StudentOf(steps[x]) = j /\ SubjectOf(steps[x]) = f}
        LastAssigned(j, f) ==
            CHOOSE x \in Assigned(j, f) : \A y \in Assigned(j, f) : y <= x
    IN  [students |->
            [j \in 1..n |->
                [f \in DOMAIN ss[j] |->
                    IF Assigned(j, f) = {} THEN ss[j][f]
                    ELSE edited_df[RowOf(steps[LastAssigned(j, f)])][f]]],
         logs |-> ls \o [x \in 1..Len(steps) |-> Entry(x)]]

\* "Save Marks Changes": the loop (which logs), then save_students.  With
\* fail = logs the first log_activity raises before anything is written.
SaveMarks(edited_df, fail) ==
    /\ Raises(fail)
    /\ UNCHANGED race
    /\ TeacherPage
    /\ fail \in {"none", LOGS_FILE, STUDENTS_FILE}
    /\ LET out == MarksLoop(students, logs, edited_df, current_user)
       IN  /\ fail = LOGS_FILE => out.logs # logs
           /\ logs' = IF fail = LOGS_FILE THEN logs ELSE out.logs
           /\ students' = IF fail = "none" THEN out.students ELSE students
    /\ Len(logs') <= MaxLog
    /\ rank' = 0
    /\ summary' = NoSummary
    /\ UNCHANGED <<exists, users, session>>

\* --------------------------------------------- manage_students: details
NameInputs == {"Renamed"}
AgeInputs == {19}

\* The rows of the details editor: the stored rows with one cell changed.
DetailFields == {"id", "name", "age", "course", "parent_name", "parent_phone"}
DetailRows(ss) == [k \in 1..Len(ss) |-> [f \in DetailFields |-> ss[k][f]]]
EditedDetails(ss) ==
    {DetailRows(ss)}
    \cup {[DetailRows(ss) EXCEPT ![i].name = n] : i \in 1..Len(ss), n \in NameInputs}
    \cup {[DetailRows(ss) EXCEPT ![i].age = a] : i \in 1..Len(ss), a \in AgeInputs}

\* Mutant of WithName: the credential keeps its name.
WithName_Stale(rec, name) == rec

\* updated_users[student_id]["name"] = row['name']
WithName(rec, name) == [rec EXCEPT !.name = name]

\* The loop nest of "Save Student Details": for each edited row r and each
\* student j with the id of the row, the five fields are overwritten, the
\* name of the credential with that id if there is one, and one entry is
\* logged.  The last row of an id is the one whose values stay.
DetailsLoop(ss, us, ls, updated_details, user) ==
    LET n == Len(ss)
        RowOf(k) == ((k - 1) \div n) + 1
        StudentOf(k) == ((k - 1) % n) + 1
        Match(k) == ss[StudentOf(k)].id = updated_details[RowOf(k)].id
        steps == SelectSeq([k \in 1..(Len(updated_details) * n) |-> k], Match)
        Entry(x) ==
            [timestamp |-> Timestamp(ls) + (x - 1), user_id |-> user,
             activity |-> <<"Updated details for student",
                            updated_details[RowOf(steps[x])].name, "ID",
                            updated_details[RowOf(steps[x])].id>>]
        Matched(id) == id \in ids(ss) /\ LastRow(updated_details, id) # 0
    IN  [students |->
            [j \in 1..n |->
                IF LastRow(updated_details, ss[j].id) = 0 THEN ss[j]
                ELSE LET row == updated_details[LastRow(updated_details, ss[j].id)]
                     IN  [ss[j] EXCEPT !.name = row.name, !.age = row.age,
                                       !.course = row.course,
                                       !.parent_name = row.parent_name,
                                       !.parent_phone = row.parent_phone]],
         users |->
            [id \in DOMAIN us |->
                IF Matched(id)
                THEN WithName(us[id], updated_details[LastRow(updated_details, id)].name)
                ELSE us[id]],
         logs |-> ls \o [x \in 1..Len(steps) |-> Entry(x)]]

\* "Save Student Details": the loop (which logs), save_students, save_users.
SaveDetails(updated_details, fail) ==
    /\ Raises(fail)
    /\ UNCHANGED race
    /\ TeacherPage
    /\ Len(students) > 0
    /\ LET out == DetailsLoop(students, users, logs, updated_details, current_user)
       IN  /\ logs' = IF fail = LOGS_FILE THEN logs ELSE out.logs
           /\ students' = IF fail \in {LOGS_FILE, STUDENTS_FILE} THEN students
                          ELSE out.students
           /\ users' = IF fail = "none" THEN out.users ELSE users
    /\ Len(logs') <= MaxLog
    /\ rank' = 0
    /\ summary' = NoSummary
    /\ UNCHANGED <<exists, session>>

\* ------------------------------------------------- manage_students: add
AddIds == {"S001", "S006", "T001"}
AddPasswords == {"abc123", "abc"}
TextFields == {"student_id", "name", "course", "parent_name", "parent_phone", "password"}

Form(student_id, password, confirm_password) ==
    [student_id |-> student_id, name |-> "Test User", age |-> 19,
     course |-> "Physics", parent_name |-> "P", parent_phone |-> "000",
     password |-> password, confirm_password |-> confirm_password]

\* The submitted forms: complete ones, and one with each text field blank.
AddForms ==
    {Form(id, pw, cf) : id \in AddIds, pw \in AddPasswords, cf \in AddPasswords}
    \cup {[Form("S006", "abc123", "abc123") EXCEPT ![f] = ""] : f \in TextFields}

\* Mutant of AddError: the confirmation is not compared.
AddError_NoMismatchCheck(ss, form) ==
    IF \E f \in TextFields : form[f] = ""
    THEN <<"Please fill all the required fields!">>
    ELSE IF form.student_id \in ids(ss)
         THEN <<"Student ID", form.student_id, "already exists!">>
         ELSE NoMsg

\* Mutant of AddError: an existing id is not refused.
AddError_NoDuplicateCheck(ss, form) ==
    IF \E f \in TextFields : form[f] = ""
    THEN <<"Please fill all the required fields!">>
    ELSE IF form.password # form.confirm_password
         THEN <<"Passwords do not match!">>
         ELSE NoMsg

\* The validation chain of the add form: the error shown, NoMsg when the
\* form is accepted.
AddError(ss, form) ==
    IF \E f \in TextFields : form[f] = ""
    THEN <<"Please fill all the required fields!">>
    ELSE IF form.password # form.confirm_password
         THEN <<"Passwords do not match!">>
         ELSE IF form.student_id \in ids(ss)
              THEN <<"Student ID", form.student_id, "already exists!">>
              ELSE NoMsg

NewStudent(form) ==
    [id |-> form.student_id, name |-> form.name, age |-> form.age,
     course |-> form.course, math |-> 0, science |-> 0, history |-> 0,
     english |-> 0, parent_name |-> form.parent_name,
     parent_phone |-> form.parent_phone]

\* updated_users[student_id] = {...}: sets or replaces the entry of that id
WithUser(us, user_id, rec) == (user_id :> rec) @@ us

\* Mutant of WithoutUser: the credential is kept.
WithoutUser_Keep(us, user_id) == us

\* del updated_users[selected_id]
WithoutUser(us, user_id) == [k \in DOMAIN us \ {user_id} |-> us[k]]

\* "Add Student": validation, then save_students, save_users, log_activity.
AddStudent(form, fail) ==
    /\ Raises(fail)
    /\ UNCHANGED race
    /\ TeacherPage
    /\ IF AddError(students, form) # NoMsg
       THEN /\ fail = "none"
            /\ UNCHANGED <<students, users, logs>>
       ELSE /\ students' = IF fail = STUDENTS_FILE THEN students
                           ELSE Append(students, NewStudent(form))
            /\ users' = IF fail \in {STUDENTS_FILE, USERS_FILE} THEN users
                        ELSE WithUser(users, form.student_id,
                                      UserRec(form.name, form.password, "student"))
            /\ logs' = IF fail # "none" THEN logs
                       ELSE log_activity(logs, current_user,
                              <<"Added new student", form.name, "ID", form.student_id>>)
    /\ Len(logs') <= MaxLog
    /\ rank' = 0
    /\ summary' = NoSummary
    /\ UNCHANGED <<exists, session>>

\* ---------------------------------------------- manage_students: remove
\* "Remove Student" for the id chosen in the select box.
RemoveStudent(selected_id, fail) ==
    /\ Raises(fail)
    /\ UNCHANGED race
    /\ TeacherPage
    /\ selected_id \in ids(students)
    /\ LET student_name == students[FindStudent(students, selected_id)].name
       IN  /\ students' = IF fail = STUDENTS_FILE THEN students
                          ELSE SelectSeq(students, LAMBDA s : s.id # selected_id)
           /\ users' = IF fail \in {STUDENTS_FILE, USERS_FILE} THEN users
                       ELSE WithoutUser(users, selected_id)
           /\ logs' = IF fail # "none" THEN logs
                      ELSE log_activity(logs, current_user,
                             <<"Removed student", student_name, "ID", selected_id>>)
    /\ Len(logs') <= MaxLog
    /\ rank' = 0
    /\ summary' = NoSummary
    /\ UNCHANGED <<exists, session>>

\* -------------------------------------------------------- change password
MIN_PASSWORD_LENGTH == 6

\* account_settings: the validation chain of the teacher's form
TeacherPasswordError(us, user_id, current_password, new_password, confirm_password) ==
    IF current_password = "" \/ new_password = "" \/ confirm_password = ""
    THEN <<"Please fill all the fields!">>
    ELSE IF hash_password(current_password) # us[user_id].password
         THEN <<"Current password is incorrect!">>
         ELSE IF new_password # confirm_password
              THEN <<"New passwords do not match!">>
              ELSE IF Len(new_password) < MIN_PASSWORD_LENGTH
                   THEN <<"Password should be at least 6 characters long!">>
                   ELSE NoMsg

\* student_dashboard: the validation chain of the sidebar form
StudentPasswordError(us, student_id, current_pwd, new_pwd, confirm_pwd) ==
    IF current_pwd = "" \/ new_pwd = "" \/ confirm_pwd = ""
    THEN <<"Please fill all fields.">>
    ELSE IF hash_password(current_pwd) # us[student_id].password
         THEN <<"Incorrect current password.">>
         ELSE IF new_pwd # confirm_pwd
              THEN <<"New passwords do not match.">>
              ELSE NoMsg

\* Mutant of StorePassword: the new hash is written to every record.
StorePassword_Everyone(user_id, new_password, fail) ==
    /\ fail \in {"none", USERS_FILE, LOGS_FILE}
    /\ users' = IF fail = USERS_FILE THEN users
                ELSE [k \in DOMAIN users |->
                        [users[k] EXCEPT !.password = hash_password(new_password)]]
    /\ logs' = IF fail # "none" THEN logs
               ELSE log_activity(logs, user_id, <<"Changed password">>)

\* The accepted branch of both forms: the hash is rewritten, save_users,
\* then log_activity.
StorePassword(user_id, new_password, fail) ==
    /\ fail \in {"none", USERS_FILE, LOGS_FILE}
    /\ users' = IF fail = USERS_FILE THEN users
                ELSE [users EXCEPT ![user_id].password = hash_password(new_password)]
    /\ logs' = IF fail # "none" THEN logs
               ELSE log_activity(logs, user_id, <<"Changed password">>)

\* account_settings, "Change Password"
TeacherChangePassword(current_password, new_password, confirm_password, fail) ==
    /\ Raises(fail)
    /\ UNCHANGED race
    /\ TeacherPage
    /\ LET err == TeacherPasswordError(users, current_user, current_password,
                                       new_password, confirm_password)
       IN  IF err # NoMsg
           THEN /\ fail = "none"
                /\ UNCHANGED <<users, logs>>
           ELSE StorePassword(current_user, new_password, fail)
    /\ Len(logs') <= MaxLog
    /\ rank' = 0
    /\ summary' = NoSummary
    /\ UNCHANGED <<exists, students, session>>

\* student_dashboard, "Change Password"; the rest of the dashboard (the
\* rank) is rendered after the form unless the handler raised.
StudentChangePassword(current_pwd, new_pwd, confirm_pwd, fail) ==
    /\ Raises(fail)
    /\ UNCHANGED race
    /\ StudentPage
    /\ LET err == StudentPasswordError(users, current_user, current_pwd,
                                       new_pwd, confirm_pwd)
       IN  IF err # NoMsg
           THEN /\ fail = "none"
                /\ UNCHANGED <<users, logs>>
           ELSE StorePassword(current_user, new_pwd, fail)
    /\ Len(logs') <= MaxLog
    /\ rank' = IF fail # "none" THEN 0
               ELSE ShownRank(students, users', logged_in, current_user)
    /\ summary' = IF fail # "none" THEN NoSummary
                  ELSE ShownSummary(students, users', logged_in, current_user)
    /\ UNCHANGED <<exists, students, session>>

Next ==
    \/ \E fail \in Fails : Rerun(fail)
    \/ \E user_id \in LoginIds, password \in PwInputs, fail \in {"none", LOGS_FILE} :
          Login(user_id, password, fail)
    \/ \E fail \in {"none", LOGS_FILE} : Logout(fail)
    \/ \E edited_df \in EditedMarks(students), fail \in {"none", LOGS_FILE, STUDENTS_FILE} :
          SaveMarks(edited_df, fail)
    \/ \E updated_details \in EditedDetails(students), fail \in Fails :
          SaveDetails(updated_details, fail)
    \/ \E form \in AddForms, fail \in Fails : AddStudent(form, fail)
    \/ \E selected_id \in ids(students), fail \in Fails :
          RemoveStudent(selected_id, fail)
    \/ \E cur \in PwInputs, new \in NewPwInputs, fail \in {"none", USERS_FILE, LOGS_FILE} :
          TeacherChangePassword(cur, new[1], new[2], fail)
    \/ \E cur \in PwInputs, new \in NewPwInputs, fail \in {"none", USERS_FILE, LOGS_FILE} :
          StudentChangePassword(cur, new[1], new[2], fail)

Spec == Init /\ [][Next]_vars
\* ------------------------------------------------------- rank specification
\* The student dashboard over classes of RankClassSize students whose marks
\* are any of these rows (marks are set through manage_marks), one of the
\* students logged in.
RankMarkRows == {<<85, 92, 78, 88>>, <<88, 85, 92, 78>>, <<75, 75, 75, 75>>,
                 <<100, 100, 100, 100>>, <<0, 0, 0, 0>>}

WithMarks(s, row) ==
    [s EXCEPT !.math = row[1], !.science = row[2], !.history = row[3],
              !.english = row[4]]

RankClasses ==
    {[i \in 1..RankClassSize |-> WithMarks(AllDefaultStudents[i], rows[i])] :
        rows \in [1..RankClassSize -> RankMarkRows]}

RankUsers ==
    default_teachers @@
    [id \in {AllDefaultStudents[i].id : i \in 1..RankClassSize} |->
        LET i == CHOOSE k \in 1..RankClassSize : AllDefaultStudents[k].id = id
        IN  UserRec(AllDefaultStudents[i].name, DefaultStudentPasswords[i], "student")]

RankInit ==
    /\ exists = [f \in Files |-> TRUE]
    /\ students \in RankClasses
    /\ users = RankUsers
    /\ logs = <<>>
    /\ logged_in = TRUE
    /\ current_user \in ids(students)
    /\ rank = 0
    /\ summary = NoSummary
    /\ raised = 0
    /\ NoRace

RankNext == Rerun("none")

RankSpec == RankInit /\ [][RankNext]_vars

\* ------------------------------------------------------ grade specification
\* The student dashboard of S001 over marks in 0..100: every total from 0
\* to 400 occurs (math over the whole range, the other three at 0 or 100),
\* and the marks the first run seeds.
GradeMarkRows ==
    {<<m, a, b, c>> : m \in 0..100, a \in {0, 100}, b \in {0, 100}, c \in {0, 100}}
    \cup {<<85, 92, 78, 88>>}

GradeInit ==
    /\ exists = [f \in Files |-> TRUE]
    /\ students \in {<<WithMarks(AllDefaultStudents[1], row)>> : row \in GradeMarkRows}
    /\ users = default_users
    /\ logs = <<>>
    /\ logged_in = TRUE
    /\ current_user = "S001"
    /\ rank = 0
    /\ summary = NoSummary
    /\ raised = 0
    /\ NoRace

GradeNext == Rerun("none")

GradeSpec == GradeInit /\ [][GradeNext]_vars

\* ------------------------------------------------------- race specification
\* Two teacher sessions on the installed files.  Streamlit runs the script
\* of each session in a thread of its own, so the loads and saves of two
\* runs interleave; a step is one load_data or one save_data.  Each session
\* runs one operation: a login (log_activity "Logged in") or an Add Student
\* of an id of its own (manage_students loads students and users when the
\* page is rendered, the handler saves students, saves users and calls
\* log_activity).
RaceForm(s) == Form(IF s = "T001" THEN "S006" ELSE "S007", "abc123", "abc123")

RaceActivity(s) ==
    IF pc[s] = "login_log_loaded" THEN <<"Logged in">>
    ELSE <<"Added new student", RaceForm(s).name, "ID", RaceForm(s).student_id>>

RaceFrame == UNCHANGED <<exists, session, rank, summary, raised>>

\* manage_students: students = load_students(); users = load_users()
LoadPage(s) ==
    /\ pc[s] = "idle"
    /\ loaded' = [loaded EXCEPT ![s].students = students, ![s].users = users]
    /\ pc' = [pc EXCEPT ![s] = "page_loaded"]
    /\ UNCHANGED <<students, users, logs>>
    /\ RaceFrame

\* "Add Student": the validation on the loaded list, then
\* save_students(updated_students)
AddSaveStudents(s) ==
    /\ pc[s] = "page_loaded"
    /\ AddError(loaded[s].students, RaceForm(s)) = NoMsg
    /\ students' = Append(loaded[s].students, NewStudent(RaceForm(s)))
    /\ pc' = [pc EXCEPT ![s] = "students_saved"]
    /\ UNCHANGED <<users, logs, loaded>>
    /\ RaceFrame

\* save_users(updated_users)
AddSaveUsers(s) ==
    /\ pc[s] = "students_saved"
    /\ users' = WithUser(loaded[s].users, RaceForm(s).student_id,
                         UserRec(RaceForm(s).name, RaceForm(s).password, "student"))
    /\ pc' = [pc EXCEPT ![s] = "users_saved"]
    /\ UNCHANGED <<students, logs, loaded>>
    /\ RaceFrame

\* log_activity: logs = load_logs(), called by a login or by the add handler
LogLoad(s) ==
    /\ pc[s] \in {"idle", "users_saved"}
    /\ loaded' = [loaded EXCEPT ![s].logs = logs]
    /\ pc' = [pc EXCEPT ![s] = IF pc[s] = "idle" THEN "login_log_loaded"
                                ELSE "add_log_loaded"]
    /\ UNCHANGED <<students, users, logs>>
    /\ RaceFrame

\* Mutant of LogSave: the entry is appended to the log as it is at the save.
LogSave_Reload(s) ==
    /\ pc[s] \in {"login_log_loaded", "add_log_loaded"}
    /\ logs' = log_activity(logs, s, RaceActivity(s))
    /\ pc' = [pc EXCEPT ![s] = IF pc[s] = "login_log_loaded" THEN "login_done"
                                ELSE "add_done"]
    /\ UNCHANGED <<students, users, loaded>>
    /\ RaceFrame

\* log_activity: logs.append(...); save_logs(logs)
LogSave(s) ==
    /\ pc[s] \in {"login_log_loaded", "add_log_loaded"}
    /\ logs' = log_activity(loaded[s].logs, s, RaceActivity(s))
    /\ pc' = [pc EXCEPT ![s] = IF pc[s] = "login_log_loaded" THEN "login_done"
                                ELSE "add_done"]
    /\ UNCHANGED <<students, users, loaded>>
    /\ RaceFrame

RaceInit ==
    /\ exists = [f \in Files |-> TRUE]
    /\ students = default_students
    /\ users = default_users
    /\ logs = <<>>
    /\ logged_in = FALSE
    /\ current_user = None
    /\ rank = 0
    /\ summary = NoSummary
    /\ raised = 0
    /\ NoRace

RaceNext ==
    \/ \E s \in RaceSessions : LoadPage(s)
    \/ \E s \in RaceSessions : AddSaveStudents(s)
    \/ \E s \in RaceSessions : AddSaveUsers(s)
    \/ \E s \in RaceSessions : LogLoad(s)
    \/ \E s \in RaceSessions : LogSave(s)

RaceSpec == RaceInit /\ [][RaceNext]_vars

\* ====================================================================
\* Properties
\* ====================================================================
IsPrefix(a, b) == Len(a) <= Len(b) /\ SubSeq(b, 1, Len(a)) = a

Unique(ss) == \A i, j \in 1..Len(ss) : i # j => ss[i].id # ss[j].id

IdSeq(ss) == [i \in 1..Len(ss) |-> ss[i].id]

\* A step of one of the two update handlers (marks, details).
UpdateStep ==
    \/ \E edited_df \in EditedMarks(students), fail \in Fails :
          SaveMarks(edited_df, fail)
    \/ \E updated_details \in EditedDetails(students), fail \in Fails :
          SaveDetails(updated_details, fail)

\* An entry of the log describes a change that the collections ss, us hold.
Persisted(entry, ss, us) ==
    LET a == entry.activity
    IN  CASE a[1] = "Updated" ->
               \E j \in 1..Len(ss) : ss[j].id = a[6] /\ ToString(ss[j][a[2]]) = a[8]
          [] a[1] = "Updated details for student" ->
               \E j \in 1..Len(ss) : ss[j].id = a[4] /\ ss[j].name = a[2]
          [] a[1] = "Added new student" -> a[4] \in ids(ss) /\ a[4] \in DOMAIN us
          [] a[1] = "Removed student" -> a[4] \notin ids(ss) /\ a[4] \notin DOMAIN us
          [] a[1] = "Changed password" -> entry.user_id \in DOMAIN us
          [] OTHER -> TRUE

\* C1: every log entry that a step appends describes a change that is in
\* the persisted collections when the step ends, also when a save raised.
C1_LogOnlyAfterSave ==
    [][\A k \in (Len(logs) + 1)..Len(logs') : Persisted(logs'[k], students', users')]_vars

\* Authenticate succeeds with role student.
AuthStudent(us, id, pw) ==
    Authenticate(us, id, pw).ok /\ Authenticate(us, id, pw).role = "student"

\* The student id is enrolled and logs in with pw.
Held(ss, us, id, pw) == id \in ids(ss) /\ AuthStudent(us, id, pw)

\* The id is in neither collection.
Gone(ss, us, id) == id \notin ids(ss) /\ id \notin DOMAIN us

KnownIds == LoginIds \cup AddIds \cup {AllDefaultStudents[i].id : i \in 1..5}

ChangePasswordStepOf(id) ==
    /\ current_user = id
    /\ \E cur \in PwInputs, new \in NewPwInputs, fail \in Fails :
          \/ TeacherChangePassword(cur, new[1], new[2], fail)
          \/ StudentChangePassword(cur, new[1], new[2], fail)

RemoveStepOf(id) == \E fail \in Fails : RemoveStudent(id, fail)

AddStepOf(id) ==
    \E form \in AddForms, fail \in Fails :
        form.student_id = id /\ AddStudent(form, fail)

\* C2: a successful AddStudent(id, password) leaves the id enrolled and
\* Authenticate(id, password) succeeding with role student; every step that
\* is no ChangePassword of that id and no RemoveStudent of it keeps this;
\* a successful RemoveStudent(id) leaves the id in neither collection, which
\* every step on the installed files that is no AddStudent of the id keeps,
\* and there Authenticate with any password answers "User ID not found!".
C2_AddThenAuthenticate ==
    [][/\ \A form \in AddForms :
            (AddError(students, form) = NoMsg /\ AddStudent(form, "none"))
            => Held(students', users', form.student_id, form.password)
       /\ \A id \in KnownIds, pw \in PwInputs :
            (Held(students, users, id, pw) /\ ~Held(students', users', id, pw))
            => (ChangePasswordStepOf(id) \/ RemoveStepOf(id))
       /\ \A id \in KnownIds :
            /\ RemoveStudent(id, "none") => Gone(students', users', id)
            /\ (AllExist /\ Gone(students, users, id) /\ ~Gone(students', users', id))
                  => AddStepOf(id)
            /\ Gone(students', users', id) /\ id # "" =>
                  \A pw \in PwInputs \ {""} :
                      Authenticate(users', id, pw).msg = <<"User ID not found!">>]_vars

\* C2 witness: S006 was added and then removed, and is in neither collection.
C2_Witness ==
    /\ Gone(students, users, "S006")
    /\ \E k \in 1..Len(logs) :
          /\ logs[k].activity = <<"Added new student", "Test User", "ID", "S006">>
          /\ \E n \in (k + 1)..Len(logs) :
                logs[n].activity = <<"Removed student", "Test User", "ID", "S006">>

ChangePasswordStep(cur, new, fails) ==
    \E fail \in fails :
        \/ TeacherChangePassword(cur, new[1], new[2], fail)
        \/ StudentChangePassword(cur, new[1], new[2], fail)

\* C3: a ChangePassword request whose new password has fewer than 6
\* characters does not succeed (no credential is stored, no change is
\* logged), from the teacher's account settings and from the student
\* dashboard.
C3_ShortPasswordRejected ==
    [][\A cur \in PwInputs, new \in NewPwInputs :
          (Len(new[1]) < 6 /\ ChangePasswordStep(cur, new, Fails))
          => (users' = users /\ logs' = logs)]_vars

\* C4: a ChangePassword of the current user with the correct current
\* password, matching confirmation and a new password of 6 characters or
\* more, whose save_users did not raise, leaves that user's hash equal to
\* hash(new), so that of the passwords only the new one authenticates, and
\* leaves the user's name and type and every other record as they were; a
\* request with a wrong current password or a mismatched confirmation
\* leaves the credential collection as it was.
C4_ChangePasswordFrame ==
    [][\A cur \in PwInputs, new \in NewPwInputs :
          LET u == current_user
          IN  /\ (/\ new[1] = new[2] /\ Len(new[1]) >= 6
                  /\ u \in DOMAIN users
                  /\ hash_password(cur) = users[u].password
                  /\ ChangePasswordStep(cur, new, {"none", LOGS_FILE}))
                 => (/\ DOMAIN users' = DOMAIN users
                     /\ users'[u].password = hash_password(new[1])
                     /\ \A p \in PwInputs \ {""} :
                           Authenticate(users', u, p).ok <=> p = new[1]
                     /\ users'[u].name = users[u].name
                     /\ users'[u].type = users[u].type
                     /\ \A v \in DOMAIN users \ {u} : users'[v] = users[v])
              /\ (/\ users' # users
                  /\ ChangePasswordStep(cur, new, Fails))
                 => (hash_password(cur) = users[u].password /\ new[1] = new[2])]_vars

\* C4 witness: teacher T001 has changed the password to abc123.
C4_Witness ==
    /\ current_user = "T001"
    /\ logs # <<>>
    /\ logs[Len(logs)].user_id = "T001"
    /\ logs[Len(logs)].activity = <<"Changed password">>
    /\ users["T001"].password = hash_password("abc123")
    /\ users["T002"] = default_teachers["T002"]

\* The three grounds on which the add form is to be rejected.
Rejectable(form, ss) ==
    \/ \E f \in TextFields : form[f] = ""
    \/ form.password # form.confirm_password
    \/ form.student_id \in ids(ss)

AddErrors ==
    {<<"Please fill all the required fields!">>, <<"Passwords do not match!">>}
    \cup {<<"Student ID", id, "already exists!">> : id \in AddIds}

\* C5: an AddStudent request with a blank required field, a password that
\* differs from its confirmation, or an id already in the student collection
\* is rejected with an error, and students, users and logs stay as they were.
C5_RejectedAddChangesNothing ==
    [][\A form \in AddForms :
          Rejectable(form, students)
          => \/ /\ AddError(students, form) \in AddErrors
                /\ UNCHANGED <<students, users, logs>>
             \/ ~\E fail \in Fails : AddStudent(form, fail)]_vars

\* C5 witness: a teacher is on the add form after S006 was enrolled, where
\* requests of each of the three kinds are rejected.
C5_Witness ==
    /\ TeacherPage
    /\ "S006" \in ids(students)
    /\ \A e \in {<<"Please fill all the required fields!">>,
                  <<"Passwords do not match!">>,
                  <<"Student ID", "S006", "already exists!">>} :
          \E form \in AddForms : AddError(students, form) = e

\* C6: no two student records have the same identifier, in the initial state
\* and after every step, and a step of an update handler leaves the sequence
\* of identifiers as it was.
C6_IdsUniqueAndImmutable ==
    /\ Unique(students)
    /\ [][/\ Unique(students')
          /\ IdSeq(students') # IdSeq(students) => ~UpdateStep]_vars

\* C6 witness: S006 was added next to S001, and a mark of S001 was updated
\* after that.
C6_Witness ==
    /\ IdSeq(students) = <<"S001", "S006">>
    /\ \E k \in 1..Len(logs) :
          /\ logs[k].activity[1] = "Added new student"
          /\ \E n \in (k + 1)..Len(logs) : logs[n].activity[1] = "Updated"

\* C7: every step leaves the log it found as a prefix of the log it leaves.
C7_LogAppendOnly == [][IsPrefix(logs, logs')]_vars

\* C7 witness: after a login and a logout the log holds both entries in
\* the order they were appended.
C7_Witness ==
    /\ Len(logs) = MaxLog
    /\ logs[Len(logs) - 1].activity = <<"Logged in">>
    /\ logs[Len(logs)].activity = <<"Logged out">>

\* C10: the rank shown to the logged-in student is 1 plus the number of
\* students of strictly greater total; equal totals give equal ranks, a
\* greater total never gives a greater rank number, and in a class of three
\* with totals 343, 343 and 300 the ranks are 1, 1 and 3.
HigherTotals(ss, s) == Cardinality({i \in 1..Len(ss) : Total(ss[i]) > Total(s)})

C10_RankIsOnePlusHigherTotals ==
    /\ rank # 0 =>
          rank = 1 + HigherTotals(students, students[FindStudent(students, current_user)])
    /\ \A i, j \in 1..Len(students) :
          /\ Total(students[i]) = Total(students[j])
                => Rank(students, students[i]) = Rank(students, students[j])
          /\ Total(students[i]) > Total(students[j])
                => Rank(students, students[i]) <= Rank(students, students[j])
    /\ \A i, j, k \in 1..Len(students) :
          (/\ Len(students) = 3
           /\ Total(students[i]) = 343 /\ Total(students[j]) = 343 /\ i # j
           /\ Total(students[k]) = 300)
          => (/\ Rank(students, students[i]) = 1
              /\ Rank(students, students[j]) = 1
              /\ Rank(students, students[k]) = 3)

\* C10 witness: two students at 343, the third at 300 is logged in and is
\* shown rank 3.
C10_Witness ==
    /\ Len(students) = 3
    /\ Total(students[1]) = 343 /\ Total(students[2]) = 343
    /\ Total(students[3]) = 300
    /\ current_user = students[3].id
    /\ rank = 3

\* C8: the session is logged out with no current user, or logged in with a
\* current user whose credential record exists with type teacher or student.
C8_SessionHasCredential ==
    \/ ~logged_in /\ current_user = None
    \/ /\ logged_in
       /\ current_user \in DOMAIN users
       /\ users[current_user].type \in {"teacher", "student"}

\* C9: a step that ends a logged-in session appends exactly the entry
\* "Logged out" of the current user and clears the current user; a step
\* that starts a session without raising appends exactly the entry
\* "Logged in" of the new current user; a login that does not authenticate
\* appends nothing and leaves the session logged out.
C9_LoginLogoutLogged ==
    [][/\ (logged_in /\ ~logged_in')
            => (/\ logs' = Append(logs, [timestamp |-> Timestamp(logs),
                                         user_id |-> current_user,
                                         activity |-> <<"Logged out">>])
                /\ current_user' = None)
       /\ (/\ ~logged_in /\ logged_in'
           /\ \E user_id \in LoginIds, password \in PwInputs :
                 Login(user_id, password, "none"))
            => logs' = Append(logs, [timestamp |-> Timestamp(logs),
                                     user_id |-> current_user',
                                     activity |-> <<"Logged in">>])
       /\ \A user_id \in LoginIds, password \in PwInputs :
            (~Authenticate(users, user_id, password).ok
             /\ Login(user_id, password, "none"))
            => (logs' = logs /\ ~logged_in' /\ current_user' = None)]_vars

\* C11 as claimed: the letter grade and the rounded GPA of the shown summary
\* lie in the same band: A exactly when GPA = 4.00 (percentage >= 90), B when
\* 3.00 <= GPA < 4.00, C when 2.00 <= GPA < 3.00, D when 1.00 <= GPA < 2.00,
\* F when GPA < 1.00.
C11_GradeInGpaBand ==
    summary # NoSummary =>
       LET gpa == summary[1]
           percentage == summary[2]
           grade == summary[3]
       IN  /\ grade = "A" <=> gpa = 400
           /\ grade = "A" <=> percentage >= 9000
           /\ grade = "B" => (300 <= gpa /\ gpa < 400)
           /\ grade = "C" => (200 <= gpa /\ gpa < 300)
           /\ grade = "D" => (100 <= gpa /\ gpa < 200)
           /\ grade = "F" => gpa < 100

\* C11 amended: as claimed for A, B, C and D; the rounded GPA of grade F is
\* at most 1.00, and it is 1.00 only at percentage 59.75 (0.9958 rounds to
\* 1.00).  Marks 85, 92, 78, 88 show GPA 3.58, percentage 85.75, grade B.
C11_GradeInGpaBandUpTo100 ==
    summary # NoSummary =>
       LET gpa == summary[1]
           percentage == summary[2]
           grade == summary[3]
       IN  /\ grade = "A" <=> gpa = 400
           /\ grade = "A" <=> percentage >= 9000
           /\ grade = "B" => (300 <= gpa /\ gpa < 400)
           /\ grade = "C" => (200 <= gpa /\ gpa < 300)
           /\ grade = "D" => (100 <= gpa /\ gpa < 200)
           /\ grade = "F" => gpa <= 100
           /\ (grade = "F" /\ gpa = 100) <=> percentage = 5975
           /\ percentage = 8575 => summary = <<358, 8575, "B">>

\* C11 witness: the dashboard shows grade F with GPA 1.00 at percentage 59.75.
C11_Witness == summary = <<100, 5975, "F">>

SubjectSet == {subjects[i] : i \in 1..Len(subjects)}

\* The entry that a marks save writes for the submitted mark of student j
\* in this subject.
MarkEntryFor(ss, edited_df, j, subject, activity) ==
    activity = <<"Updated", subject, "mark for", ss[j].name, "ID", ss[j].id,
                 "to", ToString(edited_df[j][subject])>>

\* What SaveMarks(_, "none") leaves alone, on a step that is no stuttering
\* step; tested before the handler is evaluated.
QuietSaveFrame ==
    /\ TeacherPage
    /\ UNCHANGED <<exists, users, session, raised>>
    /\ <<students, logs, rank, summary>>' # <<students, logs, rank, summary>>

\* C12: a marks save that does not raise appends exactly one entry for each
\* (student, subject) whose submitted mark differs from the stored one and
\* no other entry; afterwards each stored mark is the submitted one, and the
\* other fields of every student record and the credentials are unchanged.
C12_OneEntryPerChangedMark ==
    [][\A edited_df \in EditedMarks(students) :
          (QuietSaveFrame /\ SaveMarks(edited_df, "none")) =>
             LET changed == {p \in (1..Len(students)) \X SubjectSet :
                               edited_df[p[1]][p[2]] # students[p[1]][p[2]]}
                 new == SubSeq(logs', Len(logs) + 1, Len(logs'))
             IN  /\ IsPrefix(logs, logs')
                 /\ Len(new) = Cardinality(changed)
                 /\ \A p \in changed :
                       Cardinality({k \in 1..Len(new) :
                           /\ new[k].user_id = current_user
                           /\ MarkEntryFor(students, edited_df, p[1], p[2],
                                           new[k].activity)}) = 1
                 /\ Len(students') = Len(students)
                 /\ \A j \in 1..Len(students) :
                       /\ \A subject \in SubjectSet :
                             students'[j][subject] = edited_df[j][subject]
                       /\ \A f \in DOMAIN students[j] \ SubjectSet :
                             students'[j][f] = students[j][f]
                 /\ users' = users]_vars

\* C12 witness: one save has changed math and science of S001 to 90 and has
\* left two entries, history and english are as seeded.
C12_Witness ==
    /\ Len(logs) >= 2
    /\ logs[Len(logs) - 1].activity =
          <<"Updated", "math", "mark for", "Alice Johnson", "ID", "S001", "to", "90">>
    /\ logs[Len(logs)].activity =
          <<"Updated", "science", "mark for", "Alice Johnson", "ID", "S001", "to", "90">>
    /\ students[1].math = 90 /\ students[1].science = 90
    /\ students[1].history = 78 /\ students[1].english = 88

Other(s) == CHOOSE t \in RaceSessions : t # s

\* Session t has saved its student record, its credential.
SavedStudents(t) == pc[t] \in {"students_saved", "users_saved", "add_log_loaded", "add_done"}
SavedUsers(t) == pc[t] \in {"users_saved", "add_log_loaded", "add_done"}
SavedLogs(t) == pc[t] \in {"login_done", "add_done"}

ByUser(ls, t) == {k \in 1..Len(ls) : ls[k].user_id = t}

\* C13: when session s saves a collection that session t has saved just
\* before and both had loaded the same content (both loads before either
\* save), the file holds what s had loaded with the change of s only, the
\* change of t that was in the file is gone, and nothing raises: two
\* interleaved log_activity calls leave one entry instead of two.
C13_LastWriteWins ==
    [][\A s \in RaceSessions :
          LET t == Other(s)
              new_s == NewStudent(RaceForm(s))
              new_t == NewStudent(RaceForm(t))
          IN  /\ (/\ pc[s] \in {"login_log_loaded", "add_log_loaded"}
                  /\ SavedLogs(t) /\ loaded[t].logs = loaded[s].logs
                  /\ LogSave(s))
                 => (/\ ByUser(logs, t) # {}
                     /\ ByUser(logs', t) = {}
                     /\ Cardinality(ByUser(logs', s)) = 1
                     /\ Len(logs') = Len(loaded[s].logs) + 1
                     /\ Len(logs') = Len(logs)
                     /\ raised' = raised)
              /\ (/\ pc[s] = "page_loaded"
                  /\ SavedStudents(t) /\ loaded[t].students = loaded[s].students
                  /\ AddSaveStudents(s))
                 => (/\ new_t.id \in ids(students)
                     /\ new_t.id \notin ids(students')
                     /\ students' = Append(loaded[s].students, new_s)
                     /\ raised' = raised)
              /\ (/\ pc[s] = "students_saved"
                  /\ SavedUsers(t) /\ loaded[t].users = loaded[s].users
                  /\ AddSaveUsers(s))
                 => (/\ new_t.id \in DOMAIN users
                     /\ new_t.id \notin DOMAIN users'
                     /\ new_s.id \in DOMAIN users'
                     /\ raised' = raised)]_vars

\* C13 witness: both sessions have logged in, each loaded the empty log
\* before the other saved, and the log holds one entry.
C13_Witness ==
    /\ pc = [s \in RaceSessions |-> "login_done"]
    /\ \A s \in RaceSessions : loaded[s].logs = <<>>
    /\ Len(logs) = 1

\* C14: a credential record of role teacher is changed or deleted by no
\* step other than a ChangePassword of that teacher, which keeps its role
\* and name: no AddStudent, UpdateStudentDetails or RemoveStudent, for any
\* id typed into the form, touches it.
C14_TeacherCredentialsKept ==
    [][\A k \in DOMAIN users :
          (/\ users[k].type = "teacher"
           /\ (k \notin DOMAIN users' \/ users'[k] # users[k]))
          => (/\ ChangePasswordStepOf(k)
              /\ k \in DOMAIN users'
              /\ users'[k].type = "teacher"
              /\ users'[k].name = users[k].name)]_vars

\* Every student record has a credential of its id with role student and
\* its name, and every credential of role student has a student record.
Consistent(ss, us) ==
    /\ \A j \in 1..Len(ss) :
          /\ ss[j].id \in DOMAIN us
          /\ us[ss[j].id].type = "student"
          /\ us[ss[j].id].name = ss[j].name
    /\ \A k \in DOMAIN us : us[k].type = "student" => k \in ids(ss)

\* C15: while every operation has completed its saves (no save has raised),
\* students and credentials of role student correspond one to one by id,
\* with equal names, also after a details save that renames a student.
C15_StudentsMatchCredentials == raised = 0 => Consistent(students, users)

\* C15 witness: S001 was renamed by a details save with no save raising,
\* and the credential carries the new name.
C15_Witness ==
    /\ raised = 0
    /\ Len(students) >= 1 /\ Len(logs) >= 1 /\ "S001" \in DOMAIN users
    /\ students[1].id = "S001"
    /\ students[1].name = "Renamed"
    /\ users["S001"].name = "Renamed"
    /\ logs[Len(logs)].activity = <<"Updated details for student", "Renamed", "ID", "S001">>
====
